---- MODULE Spec2Model ----
(***************************************************************************)
(* Model of pkg/envtest/komega/default.go: the package-global probe         *)
(* factories (Get, List, Update, UpdateStatus, Object, ObjectList) built    *)
(* around the process-wide komega instance defaultK, the store client they  *)
(* talk to, and the callers that construct and poll the probes.             *)
(***************************************************************************)
EXTENDS Integers, FiniteSets, Sequences, TLC

\* ---------------------------------------------------------------- bounds
MaxCount == 1        \* largest counter value another actor writes
MaxWrites == 2       \* successful writes the probes make in one run
MaxObjs  == 2        \* instances allocated in one run
MaxExt   == 1        \* changes other actors make to the stores in one run

\* ------------------------------------------------------------ vocabulary
Nil      == "nil"                     \* the nil client.Client / nil error
Stores   == {"s1", "s2"}              \* the clients a test can install
Pollers  == {"t1", "t2"}              \* goroutines that can poll the probe
OnePoller == {"t1"}                   \* the poller of a sequential test
NotFound == "NotFound"
Conflict == "Conflict"

Identities == { [Namespace |-> "default", Name |-> "test"],
                [Namespace |-> "kube",    Name |-> "other"] }
ListOpts   == {"default"}             \* client.InNamespace("default")

ZeroObj == [Name |-> "", Namespace |-> "", spec |-> 0, status |-> 0,
            rv |-> 0, items |-> {}]
Absent  == [exists |-> FALSE, spec |-> 0, status |-> 0, rv |-> 0]

KeyOf(o) == [Namespace |-> o.Namespace, Name |-> o.Name]

\* ------------------------------------------------- the store (client.Client)
\* objs is one store's contents, a function Identities -> stored resource.
Exists(objs, key) == key \in Identities /\ objs[key].exists

\* client.Get(ctx, key, obj): fills obj on success, leaves it alone on NotFound
ClientGet(objs, key, obj) ==
  IF Exists(objs, key)
    THEN [err |-> Nil,
          obj |-> [Name |-> key.Name, Namespace |-> key.Namespace,
                   spec |-> objs[key].spec, status |-> objs[key].status,
                   rv |-> objs[key].rv, items |-> {}]]
    ELSE [err |-> NotFound, obj |-> obj]

\* client.List(ctx, list, opts...): replaces list.items by the matching items
ClientList(objs, opts, obj) ==
  [err |-> Nil,
   obj |-> [obj EXCEPT !.items =
              { [key |-> k, spec |-> objs[k].spec, status |-> objs[k].status]
                : k \in { i \in Identities :
                            objs[i].exists /\ (opts = "" \/ i.Namespace = opts) } }]]

\* client.Update / client.Status().Update: channel is "main" or "status".
\* The main channel persists the spec and keeps the stored status; the status
\* channel persists the status and keeps the stored spec.  A write based on a
\* stale resourceVersion is rejected with Conflict.  newrv is the
\* resourceVersion the store gives the written resource.
ClientWrite(objs, newrv, obj, channel) ==
  LET key == KeyOf(obj) IN
  IF ~Exists(objs, key)
    THEN [err |-> NotFound, objs |-> objs, obj |-> obj]
  ELSE IF objs[key].rv # obj.rv
    THEN [err |-> Conflict, objs |-> objs, obj |-> obj]
  ELSE LET new == [exists |-> TRUE,
                   spec   |-> IF channel = "main"   THEN obj.spec   ELSE objs[key].spec,
                   status |-> IF channel = "status" THEN obj.status ELSE objs[key].status,
                   rv     |-> newrv]
       IN [err  |-> Nil,
           objs |-> [objs EXCEPT ![key] = new],
           obj  |-> [obj EXCEPT !.spec = new.spec, !.status = new.status,
                                !.rv = new.rv]]

\* ------------------------------------------------------------------ state
VARIABLES
  defaultK,   \* the komega used by the package global functions
  store,      \* store[s]: contents of the store behind client s
  probe,      \* the probe function the test currently holds (a closure), with
              \* what has become of it: the instances its invocations used,
              \* and whether a fetch by a Get/Object invocation found nothing
  heap,       \* heap[a]: content of the instance at address a
  nextAddr,   \* next address new(V) hands out
  ext,        \* number of changes other actors have made to the stores
  writes,     \* number of successful writes the probes have made
  fac,        \* outcome of the most recent factory call
  inv         \* inv[t]: poller t's current or most recent probe invocation

vars == <<defaultK, store, probe, heap, nextAddr, ext, writes, fac, inv>>

NoKey   == [Namespace |-> "", Name |-> ""]
NoProbe == [kind |-> "none", method |-> "none", k |-> [client |-> Nil],
            bound |-> FALSE, nn |-> NoKey, opts |-> "", obj |-> 0, used |-> {},
            missed |-> FALSE]
NoFac   == [handle |-> Nil, outcome |-> "none", ret |-> "none"]
NoInv   == [pc |-> "idle", kind |-> "none", outcome |-> "none", handle |-> Nil,
            err |-> Nil, stores |-> {}, trips |-> 0, nn |-> NoKey, key |-> NoKey,
            opts |-> "", inst |-> 0, reused |-> FALSE, calls |-> 0,
            fetchErr |-> Nil, writeErr |-> Nil, wrote |-> FALSE,
            cur |-> Absent, curItems |-> {}, atFetch |-> Absent,
            after |-> Absent, obs |-> ZeroObj, ret |-> 0,
            steps |-> <<>>, channel |-> "none"]

EmptyHeap == [a \in 1..MaxObjs |-> ZeroObj]

Init ==
  /\ defaultK = [client |-> Nil]
  /\ store = [s \in Stores |->
               [i \in Identities |->
                  IF s = "s1" /\ i.Name = "test"
                    THEN [exists |-> TRUE, spec |-> 0, status |-> 0, rv |-> 1]
                    ELSE Absent]]
  /\ probe = NoProbe
  /\ heap = EmptyHeap
  /\ nextAddr = 1
  /\ ext = 0
  /\ writes = 0
  /\ fac = NoFac
  /\ inv = [t \in Pollers |-> NoInv]

\* A resourceVersion is an opaque token, compared for equality only (0 is
\* the empty version of an object that was never fetched).  The store gives
\* every write a version that no copy fetched earlier carries, so that every
\* such copy is stale afterwards: the least such number.
NewVersion ==
  LET taken == {heap[a].rv : a \in 1..MaxObjs}
  IN CHOOSE n \in 1..(MaxObjs + 1) :
       n \notin taken /\ \A m \in 1..(MaxObjs + 1) : m \notin taken => n <= m

AllIdle == \A t \in Pollers : inv[t].pc = "idle"

\* Nobody holds a result it has not looked at yet.  The test and the other
\* actors take their next step only after results were read (Observe*).
Quiet == fac.outcome = "none" /\ \A t \in Pollers : inv[t].outcome = "none"


\* ------------------------------------------------------------- SetClient
SetClient(c) ==
  /\ Quiet
  /\ defaultK.client # c
  /\ defaultK' = [client |-> c]
  /\ UNCHANGED <<writes, ext, store, probe, heap, nextAddr, fac, inv>>

\* checkClient panics exactly when this holds
checkClientNever == FALSE
checkClient == defaultK.client = Nil

\* A factory call that panics in checkClient: nothing is returned, the
\* variable holding the probe keeps what it had.
FactoryPanic(kind) ==
  /\ fac' = [handle |-> defaultK.client, outcome |-> "configPanic",
             ret |-> "none"]
  /\ UNCHANGED <<writes, ext, defaultK, store, probe, heap, nextAddr, inv>>

FactoryOk(kind) ==
  fac' = [handle |-> defaultK.client, outcome |-> "returned",
          ret |-> probe'.kind]

\* metav1.Object setters used to stamp the identity on a new instance
SetNameSkipped(o, name) == o
SetName(o, name)    == [o EXCEPT !.Name = name]
SetNamespace(o, ns) == [o EXCEPT !.Namespace = ns]

\* --------------------------------------------- methods of the komega type
\* Each returns a closure; method names the code the closure runs.
\* k.Get(obj): captures the receiver k, the key read from obj, and obj
komegaGet(k, a, o) ==
  [method |-> "Get", k |-> k, bound |-> TRUE, nn |-> KeyOf(o), opts |-> "",
   obj |-> a]

\* k.List(list, opts...)
komegaList(k, a, opts) ==
  [method |-> "List", k |-> k, bound |-> TRUE, nn |-> NoKey, opts |-> opts,
   obj |-> a]

\* k.Update(obj, updateFunc, opts...)
komegaUpdate(k, a, o) ==
  [method |-> "Update", k |-> k, bound |-> TRUE, nn |-> KeyOf(o), opts |-> "",
   obj |-> a]

\* k.UpdateStatus(obj, updateFunc, opts...)
komegaUpdateStatus(k, a, o) ==
  [method |-> "UpdateStatus", k |-> k, bound |-> TRUE, nn |-> KeyOf(o),
   opts |-> "", obj |-> a]

\* The probe the test holds: the closure c, returned by the factory kind
Probe(kind, c) ==
  [kind |-> kind, method |-> c.method, k |-> c.k, bound |-> c.bound,
   nn |-> c.nn, opts |-> c.opts, obj |-> c.obj, used |-> {}, missed |-> FALSE]

\* The komega call each factory returns the result of, evaluated when the
\* factory runs: defaultK.Get(obj), defaultK.List(obj, opts...),
\* defaultK.Update(obj, func() { f(obj) }, opts...) and
\* defaultK.UpdateStatus(obj, func() { f(obj) }, opts...)
defaultKGetUpdate(a, o) == komegaUpdate(defaultK, a, o)
defaultKGet(a, o) == komegaGet(defaultK, a, o)
defaultKList(a, opts) == komegaList(defaultK, a, opts)
defaultKUpdateGet(a, o) == komegaGet(defaultK, a, o)
defaultKUpdate(a, o) == komegaUpdate(defaultK, a, o)
defaultKUpdateStatusMain(a, o) == komegaUpdate(defaultK, a, o)
defaultKUpdateStatus(a, o) == komegaUpdateStatus(defaultK, a, o)

\* ---------------------------------------------------------- the factories
\* Every factory is called by the test between polls (no poll in progress).
\* The probe it returns replaces the one the test held; nothing refers to the
\* old probe's instances any more, so their addresses are handed out again.

\* Get(obj): obj is the caller's object, carrying the identity id
Get(id) ==
  /\ AllIdle /\ Quiet
  /\ IF checkClient THEN FactoryPanic("Get")
     ELSE /\ LET o == SetNamespace(SetName(ZeroObj, id.Name), id.Namespace)
             IN /\ heap' = [EmptyHeap EXCEPT ![1] = o]
                /\ probe' = Probe("Get", defaultKGet(1, o))
          /\ nextAddr' = 2
          /\ FactoryOk("Get")
          /\ UNCHANGED <<writes, ext, defaultK, store, inv>>

\* List(obj, opts...): obj is the caller's (empty) list
List(opts) ==
  /\ AllIdle /\ Quiet
  /\ IF checkClient THEN FactoryPanic("List")
     ELSE /\ heap' = EmptyHeap
          /\ probe' = Probe("List", defaultKList(1, opts))
          /\ nextAddr' = 2
          /\ FactoryOk("List")
          /\ UNCHANGED <<writes, ext, defaultK, store, inv>>

\* Update(nn, f, opts...): allocates obj, stamps nn, hands obj to k.Update
Update(nn) ==
  /\ AllIdle /\ Quiet
  /\ IF checkClient THEN FactoryPanic("Update")
     ELSE /\ LET o == SetNamespace(SetName(ZeroObj, nn.Name), nn.Namespace)
             IN /\ heap' = [EmptyHeap EXCEPT ![1] = o]
                /\ probe' = Probe("Update", defaultKUpdate(1, o))
          /\ nextAddr' = 2
          /\ FactoryOk("Update")
          /\ UNCHANGED <<writes, ext, defaultK, store, inv>>

\* UpdateStatus(nn, f, opts...)
UpdateStatus(nn) ==
  /\ AllIdle /\ Quiet
  /\ IF checkClient THEN FactoryPanic("UpdateStatus")
     ELSE /\ LET o == SetNamespace(SetName(ZeroObj, nn.Name), nn.Namespace)
             IN /\ heap' = [EmptyHeap EXCEPT ![1] = o]
                /\ probe' = Probe("UpdateStatus", defaultKUpdateStatus(1, o))
          /\ nextAddr' = 2
          /\ FactoryOk("UpdateStatus")
          /\ UNCHANGED <<writes, ext, defaultK, store, inv>>

\* Object(nn): the closure captures nn only; defaultK is read when it runs
Object(nn) ==
  /\ AllIdle /\ Quiet
  /\ IF checkClient THEN FactoryPanic("Object")
     ELSE /\ probe' = [kind |-> "Object", method |-> "Object",
                       k |-> [client |-> Nil],
                       bound |-> FALSE, nn |-> nn, opts |-> "", obj |-> 0,
                       used |-> {}, missed |-> FALSE]
          /\ heap' = EmptyHeap
          /\ nextAddr' = 1
          /\ FactoryOk("Object")
          /\ UNCHANGED <<writes, ext, defaultK, store, inv>>

\* ObjectList(opts...)
ObjectList(opts) ==
  /\ AllIdle /\ Quiet
  /\ IF checkClient THEN FactoryPanic("ObjectList")
     ELSE /\ probe' = [kind |-> "ObjectList", method |-> "ObjectList",
                       k |-> [client |-> Nil],
                       bound |-> FALSE, nn |-> NoKey, opts |-> opts, obj |-> 0,
                       used |-> {}, missed |-> FALSE]
          /\ heap' = EmptyHeap
          /\ nextAddr' = 1
          /\ FactoryOk("ObjectList")
          /\ UNCHANGED <<writes, ext, defaultK, store, inv>>

\* ------------------------------------------------- one store round trip
\* k.client.Get(...) / k.client.List(...) as the komega closures issue it.
\* Calling a method on the nil client is a nil-pointer runtime panic.
RoundTripGet(k, key, o) ==
  IF k.client = Nil
    THEN [outcome |-> "nilPanic", err |-> Nil, obj |-> o, stores |-> {}, trips |-> 0]
    ELSE LET r == ClientGet(store[k.client], key, o)
         IN [outcome |-> "returned", err |-> r.err, obj |-> r.obj,
             stores |-> {k.client}, trips |-> 1]

RoundTripList(k, opts, o) ==
  IF k.client = Nil
    THEN [outcome |-> "nilPanic", err |-> Nil, obj |-> o, stores |-> {}, trips |-> 0]
    ELSE LET r == ClientList(store[k.client], opts, o)
         IN [outcome |-> "returned", err |-> r.err, obj |-> r.obj,
             stores |-> {k.client}, trips |-> 1]

\* What the store a round trip went to holds, for the history fields
Queried(k, key) ==
  IF k.client = Nil \/ key \notin Identities
    THEN Absent ELSE store[k.client][key]

\* What the store behind the current handle holds, for the history fields
Current(key) ==
  IF defaultK.client = Nil \/ key \notin Identities
    THEN Absent ELSE store[defaultK.client][key]
CurrentItems(opts) ==
  IF defaultK.client = Nil THEN {}
  ELSE ClientList(store[defaultK.client], opts, ZeroObj).obj.items

\* ------------------------------------------------ invoking the Get probe
\* The closure k.Get returned: one fetch into the caller's object.
InvokeGet(t) ==
  /\ probe.method = "Get" /\ inv[t].pc = "idle" /\ inv[t].outcome = "none"
  /\ LET a == probe.obj
         r == RoundTripGet(probe.k, probe.nn, heap[a])
     IN /\ heap' = [heap EXCEPT ![a] = r.obj]
        /\ inv' = [inv EXCEPT ![t] =
             [NoInv EXCEPT !.kind = probe.kind, !.outcome = r.outcome,
                !.steps = <<"fetch">>,
                !.handle = defaultK.client, !.err = r.err, !.stores = r.stores,
                !.trips = r.trips, !.nn = probe.nn, !.key = probe.nn,
                !.inst = a, !.reused = a \in probe.used, !.fetchErr = r.err,
                !.cur = Current(probe.nn),
                !.atFetch = Queried(probe.k, probe.nn), !.obs = r.obj]]
        /\ probe' = [probe EXCEPT !.used = @ \cup {a},
                                  !.missed = @ \/ r.err = NotFound]
  /\ UNCHANGED <<writes, ext, defaultK, store, nextAddr, fac>>

\* The closure k.List returned: one list query into the caller's list.
InvokeList(t) ==
  /\ probe.method = "List" /\ inv[t].pc = "idle" /\ inv[t].outcome = "none"
  /\ LET a == probe.obj
         r == RoundTripList(probe.k, probe.opts, heap[a])
     IN /\ heap' = [heap EXCEPT ![a] = r.obj]
        /\ inv' = [inv EXCEPT ![t] =
             [NoInv EXCEPT !.kind = probe.kind, !.outcome = r.outcome,
                !.steps = <<"list">>,
                !.handle = defaultK.client, !.err = r.err, !.stores = r.stores,
                !.trips = r.trips, !.opts = probe.opts,
                !.inst = a, !.reused = a \in probe.used, !.fetchErr = r.err,
                !.curItems = CurrentItems(probe.opts), !.obs = r.obj]]
        /\ probe' = [probe EXCEPT !.used = @ \cup {a}]
  /\ UNCHANGED <<writes, ext, defaultK, store, nextAddr, fac>>

\* --------------------------------------------- invoking the Object probe
\* var obj T = new(V)
ObjectNewRetained == IF probe.used # {} THEN CHOOSE a \in probe.used : TRUE
                     ELSE nextAddr
ObjectNew == nextAddr

\* obj.SetName(nn.Name); obj.SetNamespace(nn.Namespace)
ObjectStampNameOnly(o, nn) == SetName(o, nn.Name)
ObjectStamp(o, nn) == SetNamespace(SetName(o, nn.Name), nn.Namespace)

\* return obj, err
ObjectReturnNoErr(o, err) == [obj |-> o, err |-> Nil]
ObjectReturn(o, err) == [obj |-> o, err |-> err]

\* err := defaultK.Get(obj)(): defaultK is read now, the closure it returns
\* runs at once
ObjectGetSkipped(o) ==
  [outcome |-> "returned", err |-> Nil, obj |-> o, stores |-> {}, trips |-> 0]
ObjectGetRetry(o) ==
  LET r == RoundTripGet(defaultK, KeyOf(o), o)
  IN IF r.outcome = "returned" /\ r.err # Nil THEN [r EXCEPT !.trips = 2] ELSE r
ObjectGet(o) == RoundTripGet(defaultK, KeyOf(o), o)

InvokeObject(t) ==
  /\ probe.method = "Object" /\ inv[t].pc = "idle" /\ inv[t].outcome = "none"
  /\ LET a   == ObjectNew
         o0  == IF a = nextAddr THEN ZeroObj ELSE heap[a]
         o1  == ObjectStamp(o0, probe.nn)
         r   == ObjectGet(o1)
         res == ObjectReturn(r.obj, r.err)
         ok  == r.outcome = "returned"
     IN /\ a <= MaxObjs
        /\ heap' = [heap EXCEPT ![a] = r.obj]
        /\ nextAddr' = IF a = nextAddr THEN nextAddr + 1 ELSE nextAddr
        /\ inv' = [inv EXCEPT ![t] =
             [NoInv EXCEPT !.kind = probe.kind, !.outcome = r.outcome,
                !.steps = IF r.trips = 0 THEN <<>> ELSE <<"fetch">>,
                !.handle = defaultK.client,
                !.err = IF ok THEN res.err ELSE Nil, !.stores = r.stores,
                !.trips = r.trips, !.nn = probe.nn, !.key = KeyOf(o1),
                !.inst = a, !.reused = a \in probe.used, !.fetchErr = r.err,
                !.cur = Current(probe.nn),
                !.atFetch = Queried(defaultK, KeyOf(o1)),
                !.obs = IF ok THEN res.obj ELSE ZeroObj,
                !.ret = IF ok THEN a ELSE 0]]
        /\ probe' = [probe EXCEPT !.used = @ \cup {a},
                                  !.missed = @ \/ r.err = NotFound]
  /\ UNCHANGED <<writes, ext, defaultK, store, fac>>

\* ----------------------------------------- invoking the ObjectList probe
ObjectListNew == nextAddr
ObjectListReturn(o, err) == [obj |-> o, err |-> err]

InvokeObjectList(t) ==
  /\ probe.method = "ObjectList" /\ inv[t].pc = "idle" /\ inv[t].outcome = "none"
  /\ LET a   == ObjectListNew
         o0  == IF a = nextAddr THEN ZeroObj ELSE heap[a]
         r   == RoundTripList(defaultK, probe.opts, o0)
         res == ObjectListReturn(r.obj, r.err)
         ok  == r.outcome = "returned"
     IN /\ a <= MaxObjs
        /\ heap' = [heap EXCEPT ![a] = r.obj]
        /\ nextAddr' = IF a = nextAddr THEN nextAddr + 1 ELSE nextAddr
        /\ inv' = [inv EXCEPT ![t] =
             [NoInv EXCEPT !.kind = probe.kind, !.outcome = r.outcome,
                !.steps = IF r.trips = 0 THEN <<>> ELSE <<"list">>,
                !.handle = defaultK.client,
                !.err = IF ok THEN res.err ELSE Nil, !.stores = r.stores,
                !.trips = r.trips, !.opts = probe.opts,
                !.inst = a, !.reused = a \in probe.used, !.fetchErr = r.err,
                !.curItems = CurrentItems(probe.opts),
                !.obs = IF ok THEN res.obj ELSE ZeroObj,
                !.ret = IF ok THEN a ELSE 0]]
        /\ probe' = [probe EXCEPT !.used = @ \cup {a}]
  /\ UNCHANGED <<writes, ext, defaultK, store, fac>>

\* --------------------------- invoking the Update / UpdateStatus probes
\* The caller's mutator: increments the counter fields of the object it is
\* given.  m pairs the object with the number of mutator calls so far.
f(m) == [obj   |-> [m.obj EXCEPT !.spec = @ + 1, !.status = @ + 1],
         calls |-> m.calls + 1]

\* func() { f(obj) }, the updateFunc handed to k.Update / k.UpdateStatus
updateFuncNoop(m)  == m
updateFuncTwice(m) == f(f(m))
updateFunc(m) == f(m)
updateStatusFunc(m) == f(m)

Channel(kind) == IF kind = "UpdateStatus" THEN "status" ELSE "main"

\* if err != nil { return err } after the fetch: FetchOk is the way on
FetchOkAnyway(r) == r.outcome = "returned"
FetchOk(r) == r.outcome = "returned" /\ r.err = Nil

\* Step 1 of the closure k.Update / k.UpdateStatus returned: fetch into obj;
\* a failed fetch returns its error at once.
UpdateFetch(t) ==
  /\ probe.method \in {"Update", "UpdateStatus"}
  /\ inv[t].pc = "idle" /\ inv[t].outcome = "none"
  /\ LET a  == probe.obj
         r  == RoundTripGet(probe.k, probe.nn, heap[a])
         ok == FetchOk(r)
         at == Queried(probe.k, probe.nn)
     IN /\ writes < MaxWrites
        /\ heap' = [heap EXCEPT ![a] = r.obj]
        /\ inv' = [inv EXCEPT ![t] =
             [NoInv EXCEPT !.pc = IF ok THEN "fetched" ELSE "idle",
                !.kind = probe.kind, !.steps = <<"fetch">>,
                !.outcome = IF ok THEN "none" ELSE r.outcome,
                !.handle = defaultK.client, !.err = r.err, !.stores = r.stores,
                !.trips = r.trips, !.nn = probe.nn, !.key = probe.nn,
                !.inst = a, !.reused = a \in probe.used, !.fetchErr = r.err,
                !.cur = Current(probe.nn), !.atFetch = at, !.obs = r.obj]]
        /\ probe' = [probe EXCEPT !.used = @ \cup {a}]
  /\ UNCHANGED <<writes, ext, defaultK, store, nextAddr, fac>>

\* Step 2: updateFunc()
UpdateMutate(t) ==
  /\ inv[t].pc = "fetched"
  /\ LET a == probe.obj
         m == IF inv[t].kind = "Update"
                THEN updateFunc([obj |-> heap[a], calls |-> inv[t].calls])
                ELSE updateStatusFunc([obj |-> heap[a], calls |-> inv[t].calls])
     IN /\ heap' = [heap EXCEPT ![a] = m.obj]
        /\ inv' = [inv EXCEPT ![t].pc = "mutated", ![t].calls = m.calls,
                             ![t].steps = Append(@, "mutate")]
  /\ UNCHANGED <<writes, ext, defaultK, store, probe, nextAddr, fac>>

\* Step 3: k.client.Update(obj) / k.client.Status().Update(obj); its error
\* is the closure's result.
UpdateWrite(t) ==
  /\ inv[t].pc = "mutated"
  /\ LET a == probe.obj
         s == probe.k.client
         w == ClientWrite(store[s],
                          NewVersion, heap[a], Channel(probe.method))
     IN /\ store' = [store EXCEPT ![s] = w.objs]
        /\ writes' = IF w.err = Nil THEN writes + 1 ELSE writes
        /\ heap' = [heap EXCEPT ![a] = w.obj]
        /\ inv' = [inv EXCEPT ![t].pc = "idle", ![t].outcome = "returned",
                     ![t].err = w.err, ![t].writeErr = w.err,
                     ![t].wrote = (w.err = Nil),
                     ![t].stores = @ \cup {s}, ![t].trips = @ + 1,
                     ![t].steps = Append(@, "write"),
                     ![t].channel = Channel(probe.method),
                     ![t].after = IF inv[t].key \in Identities
                                    THEN w.objs[inv[t].key] ELSE Absent,
                     ![t].obs = w.obj]
  /\ UNCHANGED <<ext, defaultK, probe, nextAddr, fac>>

\* ---------------------------------------------------------- environment
\* Other actors writing the stores directly.
ExtCreate(s, id) ==
  /\ Quiet /\ ext < MaxExt
  /\ ext' = ext + 1
  /\ ~store[s][id].exists
  /\ store' = [store EXCEPT ![s][id] =
                 [exists |-> TRUE, spec |-> 0, status |-> 0,
                  rv |-> NewVersion]]
  /\ UNCHANGED <<writes, defaultK, probe, heap, nextAddr, fac, inv>>

ExtWrite(s, id, v) ==
  /\ Quiet /\ ext < MaxExt
  /\ ext' = ext + 1
  /\ store[s][id].exists /\ store[s][id].spec # v
  /\ store' = [store EXCEPT ![s][id].spec = v,
                             ![s][id].rv = NewVersion]
  /\ UNCHANGED <<writes, defaultK, probe, heap, nextAddr, fac, inv>>

ExtDelete(s, id) ==
  /\ Quiet /\ ext < MaxExt
  /\ ext' = ext + 1
  /\ store[s][id].exists
  /\ store' = [store EXCEPT ![s][id] = Absent]
  /\ UNCHANGED <<writes, defaultK, probe, heap, nextAddr, fac, inv>>

\* The caller changes an instance an Object/ObjectList probe returned to it,
\* and keeps it (one such instance at a time).
Scribble == [Name |-> "other", Namespace |-> "kube", spec |-> MaxCount,
             status |-> MaxCount, rv |-> 0, items |-> {}]
CallerMutate(t) ==
  /\ inv[t].pc = "idle" /\ inv[t].outcome = "returned" /\ inv[t].ret # 0
  /\ \A a \in 1..MaxObjs : heap[a] # Scribble
  /\ heap' = [heap EXCEPT ![inv[t].ret] = Scribble]
  /\ UNCHANGED <<writes, ext, defaultK, store, probe, nextAddr, fac, inv>>

\* The test reads the outcome of its factory call.
ObserveFactory ==
  /\ fac.outcome # "none"
  /\ fac' = NoFac
  /\ UNCHANGED <<writes, ext, defaultK, store, probe, heap, nextAddr, inv>>

\* The polling engine reads what the probe returned (or recovers the panic).
\* The caller keeps the instance it was handed if it changed it (CallerMutate
\* below); otherwise it drops it and the instance is collected.
Observe(t) ==
  /\ inv[t].pc = "idle" /\ inv[t].outcome # "none"
  /\ inv' = [inv EXCEPT ![t] = NoInv]
  /\ heap' = IF inv[t].ret = 0 \/ heap[inv[t].ret] = Scribble
               THEN heap ELSE [heap EXCEPT ![inv[t].ret] = ZeroObj]
  /\ UNCHANGED <<writes, ext, defaultK, store, probe, nextAddr, fac>>

Next ==
  \/ \E c \in Stores \cup {Nil} : SetClient(c)
  \/ \E id \in Identities : Get(id)
  \/ \E o \in ListOpts : List(o)
  \/ \E nn \in Identities : Update(nn)
  \/ \E nn \in Identities : UpdateStatus(nn)
  \/ \E nn \in Identities : Object(nn)
  \/ \E o \in ListOpts : ObjectList(o)
  \/ \E t \in OnePoller : InvokeGet(t)
  \/ \E t \in OnePoller : InvokeList(t)
  \/ \E t \in OnePoller : InvokeObject(t)
  \/ \E t \in OnePoller : InvokeObjectList(t)
  \/ \E t \in OnePoller : UpdateFetch(t)
  \/ \E t \in OnePoller : UpdateMutate(t)
  \/ \E t \in OnePoller : UpdateWrite(t)
  \/ \E s \in Stores, id \in Identities : ExtCreate(s, id)
  \/ \E s \in Stores, id \in Identities, v \in 0..MaxCount : ExtWrite(s, id, v)
  \/ \E s \in Stores, id \in Identities : ExtDelete(s, id)
  \/ \E t \in OnePoller : CallerMutate(t)
  \/ ObserveFactory
  \/ \E t \in OnePoller : Observe(t)

Spec == Init /\ [][Next]_vars

\* A test that polls fetch probes and keeps the results of two calls made in
\* a row: inv[t1] and inv[t2] are the two results it holds.  Nothing else
\* happens between the two calls (everything else waits for Quiet).
NextTwice ==
  \/ \E c \in Stores \cup {Nil} : SetClient(c)
  \/ \E id \in Identities : Get(id)
  \/ \E nn \in Identities : Object(nn)
  \/ \E t \in Pollers : InvokeGet(t)
  \/ \E t \in Pollers : InvokeObject(t)
  \/ \E s \in Stores, id \in Identities : ExtCreate(s, id)
  \/ \E s \in Stores, id \in Identities, v \in 0..MaxCount : ExtWrite(s, id, v)
  \/ \E s \in Stores, id \in Identities : ExtDelete(s, id)
  \/ ObserveFactory
  \/ \E t \in Pollers : Observe(t)

SpecTwice == Init /\ [][NextTwice]_vars

\* Two goroutines poll the Update / UpdateStatus probe the test holds: an
\* invocation may start while the other's is in progress.
NextConc ==
  \/ \E c \in Stores \cup {Nil} : SetClient(c)
  \/ \E nn \in Identities : Update(nn)
  \/ \E nn \in Identities : UpdateStatus(nn)
  \/ \E t \in Pollers : UpdateFetch(t)
  \/ \E t \in Pollers : UpdateMutate(t)
  \/ \E t \in Pollers : UpdateWrite(t)
  \/ ObserveFactory
  \/ \E t \in Pollers : Observe(t)

SpecConc == Init /\ [][NextConc]_vars

\* A test that builds one Update / UpdateStatus probe and hands it to a
\* polling engine, which keeps invoking it: every step of an invocation in
\* progress is taken, every result is read, and the next invocation follows.
\* Other actors create and write resources, MaxExt times at most.
NextLive ==
  \/ \E c \in Stores \cup {Nil} : SetClient(c)
  \/ \E nn \in Identities : probe = NoProbe /\ Update(nn)
  \/ \E nn \in Identities : probe = NoProbe /\ UpdateStatus(nn)
  \/ \E t \in OnePoller : UpdateFetch(t)
  \/ \E t \in OnePoller : UpdateMutate(t)
  \/ \E t \in OnePoller : UpdateWrite(t)
  \/ \E s \in Stores, id \in Identities : ExtCreate(s, id)
  \/ \E s \in Stores, id \in Identities, v \in 0..MaxCount : ExtWrite(s, id, v)
  \/ ObserveFactory
  \/ \E t \in OnePoller : Observe(t)

Polling ==
  \A t \in OnePoller :
    /\ WF_vars(UpdateFetch(t)) /\ WF_vars(UpdateMutate(t))
    /\ WF_vars(UpdateWrite(t)) /\ WF_vars(Observe(t))

SpecLive == Init /\ [][NextLive]_vars /\ Polling

\* ------------------------------------------------------------------------
\* Properties
\* ------------------------------------------------------------------------
Updates   == {"Update", "UpdateStatus"}
Returned(t) == inv[t].outcome = "returned"
\* the counter an Update / UpdateStatus probe persists
Counter(r, kind) == IF kind = "UpdateStatus" THEN r.status ELSE r.spec
\* a freshly allocated instance carrying nothing but the identity nn
IdentityStamp(nn) == [Name |-> nn.Name, Namespace |-> nn.Namespace, spec |-> 0,
                      status |-> 0, rv |-> 0, items |-> {}]
\* the object a successful fetch of the stored resource r under key nn yields
Fetched(nn, r) == [Name |-> nn.Name, Namespace |-> nn.Namespace,
                   spec |-> r.spec, status |-> r.status, rv |-> r.rv,
                   items |-> {}]

\* C1: a factory called while the store handle is unset panics with the
\* configuration error and returns no probe; called while the handle is set
\* it returns a probe and does not panic.
Thm_C1 ==
  fac.outcome # "none" =>
    IF fac.handle = Nil
      THEN fac.outcome = "configPanic" /\ fac.ret = "none"
      ELSE fac.outcome = "returned" /\ fac.ret # "none" /\ probe.kind = fac.ret
Wit_C1 == fac.outcome = "configPanic" /\ probe.kind = "Object" /\ defaultK.client = Nil

\* C2 (as stated): every probe invocation made while the store handle is
\* unset signals the configuration error, nothing else.
Orig_C2 ==
  \A t \in Pollers :
    (inv[t].outcome # "none" /\ inv[t].handle = Nil)
      => inv[t].outcome = "configPanic"

\* C3 (as stated): every probe invocation talks to the store whose handle is
\* current when the invocation is made.
Orig_C3 ==
  \A t \in Pollers :
    (Returned(t) /\ inv[t].handle # Nil) => inv[t].stores \subseteq {inv[t].handle}

\* C4: a successful invocation of an Update / UpdateStatus probe leaves the
\* stored counter at the value the store held at this invocation's fetch
\* plus exactly 1, whatever earlier invocations and other actors did before.
Thm_C4 ==
  \A t \in Pollers :
    (inv[t].kind \in Updates /\ Returned(t) /\ inv[t].err = Nil)
      => /\ inv[t].atFetch.exists /\ inv[t].after.exists
         /\ Counter(inv[t].after, inv[t].kind)
              = Counter(inv[t].atFetch, inv[t].kind) + 1
Wit_C4 ==
  \E t \in Pollers :
    /\ inv[t].kind = "Update" /\ Returned(t) /\ inv[t].err = Nil
    /\ inv[t].reused /\ writes = 2 /\ ext = 1
    /\ inv[t].atFetch.spec = 0 /\ heap[probe.obj].spec = 1

Orig_C6 ==
  \A t \in Pollers : inv[t].kind \in Updates => ~inv[t].reused

\* C7: every invocation of an Object / ObjectList probe returns an instance
\* no earlier invocation of the probe used, queries the identity given at
\* construction and yields what the store holds, whatever callers did to the
\* instances returned before.
Thm_C7 ==
  \A t \in Pollers :
    (inv[t].kind \in {"Object", "ObjectList"} /\ Returned(t))
      => /\ ~inv[t].reused
         /\ inv[t].ret = inv[t].inst /\ inv[t].ret \notin (probe.used \ {inv[t].inst})
         /\ inv[t].kind = "Object" =>
              /\ inv[t].key = inv[t].nn
              /\ inv[t].obs = IF inv[t].cur.exists
                                THEN Fetched(inv[t].nn, inv[t].cur)
                                ELSE IdentityStamp(inv[t].nn)
         /\ inv[t].kind = "ObjectList" => inv[t].obs.items = inv[t].curItems
Wit_C7 ==
  \E t \in Pollers :
    /\ inv[t].kind = "Object" /\ Returned(t) /\ inv[t].ret = 2
    /\ heap[1] = Scribble

\* C8 (as stated): a Get or Object probe invoked for an identity that exists
\* in the configured store returns no error and the store's content.
Orig_C8 ==
  \A t \in Pollers :
    (inv[t].kind \in {"Get", "Object"} /\ inv[t].outcome # "none"
       /\ inv[t].handle # Nil /\ inv[t].cur.exists)
      => /\ Returned(t) /\ inv[t].err = Nil
         /\ inv[t].obs = Fetched(inv[t].nn, inv[t].cur)

Thm_C10 ==
  \A t \in Pollers :
    (inv[t].kind = "Object" /\ Returned(t) /\ ~inv[t].cur.exists)
      => /\ inv[t].err # Nil
         /\ inv[t].obs = IdentityStamp(inv[t].nn)
Wit_C10 ==
  \E t \in Pollers :
    /\ inv[t].kind = "Object" /\ Returned(t) /\ ~inv[t].cur.exists
    /\ inv[t].nn = [Namespace |-> "default", Name |-> "test"]
    /\ inv[t].handle = "s1"

\* The probe reads the store the test configured: the handle current at the
\* invocation is the one the probe was built with (Object and ObjectList
\* probes are built with none).
SameHandle(t) ==
  inv[t].handle # Nil /\ (probe.bound => probe.k.client = inv[t].handle)

\* C11: once the store is configured, an invocation of a Get or Object probe
\* returns an error as long as the resource has not been created in that
\* store, and returns success once another actor has created it.
Thm_C11 ==
  \A t \in Pollers :
    (inv[t].kind \in {"Get", "Object"} /\ inv[t].outcome # "none" /\ SameHandle(t))
      => /\ Returned(t)
         /\ ~inv[t].cur.exists => inv[t].err = NotFound
         /\ inv[t].cur.exists => inv[t].err = Nil
Wit_C11 ==
  \E t \in Pollers :
    /\ inv[t].kind = "Get" /\ Returned(t) /\ SameHandle(t)
    /\ inv[t].nn = [Namespace |-> "kube", Name |-> "other"]
    /\ probe.missed /\ ext = 1 /\ inv[t].err = Nil

\* C12: an UpdateStatus probe writes through the status channel only and an
\* Update probe through the main channel only: a successful UpdateStatus
\* leaves the stored main body as fetched, a successful Update leaves the
\* stored status as fetched; on either probe a writing invocation is the
\* same fetch, mutate, write and counts the same round trips.
Thm_C12 ==
  \A t \in Pollers :
    (inv[t].kind \in Updates /\ Returned(t) /\ inv[t].fetchErr = Nil)
      => /\ inv[t].steps = <<"fetch", "mutate", "write">> /\ inv[t].trips = 2
         /\ inv[t].channel = IF inv[t].kind = "UpdateStatus" THEN "status"
                                                             ELSE "main"
         /\ (inv[t].wrote /\ inv[t].kind = "UpdateStatus") =>
              /\ inv[t].after.spec = inv[t].atFetch.spec
              /\ inv[t].after.status = inv[t].atFetch.status + 1
         /\ (inv[t].wrote /\ inv[t].kind = "Update") =>
              /\ inv[t].after.status = inv[t].atFetch.status
              /\ inv[t].after.spec = inv[t].atFetch.spec + 1
Wit_C12 ==
  \E t \in Pollers :
    /\ inv[t].kind = "UpdateStatus" /\ Returned(t) /\ inv[t].wrote
    /\ inv[t].channel = "status"
    /\ inv[t].atFetch.spec = 1 /\ inv[t].after.spec = 1
    /\ inv[t].after.status = 1

\* C13: two invocations of a Get or Object probe made in a row, with nothing
\* changing the store in between, for an identity the configured store holds:
\* both succeed and both observe the same state.
Thm_C13 ==
  \A t, u \in Pollers :
    (/\ t # u
     /\ inv[t].kind \in {"Get", "Object"} /\ inv[u].kind = inv[t].kind
     /\ inv[t].outcome # "none" /\ inv[u].outcome # "none"
     /\ SameHandle(t) /\ inv[t].cur.exists)
      => /\ Returned(t) /\ Returned(u)
         /\ inv[t].err = Nil /\ inv[u].err = Nil
         /\ inv[t].obs = inv[u].obs
Wit_C13 ==
  \E t, u \in Pollers :
    /\ inv[t].kind = "Object" /\ inv[u].kind = "Object"
    /\ Returned(t) /\ Returned(u) /\ inv[t].ret = 1 /\ inv[u].ret = 2
    /\ inv[t].err = Nil /\ inv[t].obs.spec = 1 /\ inv[u].obs.spec = 1

\* C14: an invocation of an Update / UpdateStatus probe whose write the
\* store rejects returns the store's error and leaves every store as it was;
\* and while the probe's resource is in its store, with other actors writing
\* finitely often, an engine that keeps polling the probe gets an invocation
\* that writes and returns no error.
WriteRejected(t) ==
  inv[t].pc = "mutated" /\ inv'[t].pc = "idle" /\ inv'[t].writeErr # Nil
Thm_C14 ==
  /\ [][\A t \in Pollers :
          WriteRejected(t) => /\ store' = store
                              /\ inv'[t].outcome = "returned"
                              /\ inv'[t].err = inv'[t].writeErr
                              /\ inv'[t].err = Conflict]_vars
  /\ \A t \in OnePoller :
       [](( /\ probe.kind \in Updates
            /\ Queried(probe.k, probe.nn).exists
            /\ writes < MaxWrites )
          => <>( /\ Returned(t) /\ inv[t].kind \in Updates
                 /\ inv[t].err = Nil /\ inv[t].wrote ))
Wit_C14 ==
  \E t \in OnePoller :
    /\ Returned(t) /\ inv[t].kind = "Update" /\ inv[t].err = Nil /\ inv[t].wrote
    /\ ext = 1 /\ writes = 1 /\ inv[t].atFetch.spec = 1 /\ inv[t].atFetch.rv # 1
    /\ heap[probe.obj].spec = 2

\* C15 (as stated): when two invocations of one Update / UpdateStatus probe
\* interleave, each invocation that writes stores the state it fetched itself
\* with the mutator applied once: the counter it fetched plus 1.
Orig_C15 ==
  \A t \in Pollers :
    (inv[t].kind \in Updates /\ Returned(t) /\ inv[t].wrote)
      => /\ inv[t].calls = 1
         /\ Counter(inv[t].obs, inv[t].kind)
              = Counter(Fetched(inv[t].nn, inv[t].atFetch), inv[t].kind) + 1

\* C16: an invocation of an Update / UpdateStatus probe fetches, then runs
\* the mutator, then writes; it gets past the fetch only if the fetch
\* succeeded, so an invocation whose fetch fails has run no mutator and issued
\* no write, and neither the fetch nor the mutator changes a store.
StepsInOrder(t) ==
  /\ inv[t].pc = "fetched" => inv[t].steps = <<"fetch">> /\ inv[t].fetchErr = Nil
  /\ inv[t].pc = "mutated" =>
       inv[t].steps = <<"fetch", "mutate">> /\ inv[t].fetchErr = Nil
  /\ Returned(t) =>
       IF inv[t].fetchErr = Nil
         THEN inv[t].steps = <<"fetch", "mutate", "write">>
         ELSE /\ inv[t].steps = <<"fetch">> /\ inv[t].err = inv[t].fetchErr
              /\ ~inv[t].wrote /\ inv[t].trips = 1 /\ inv[t].channel = "none"
Thm_C16 ==
  /\ [](\A t \in Pollers : inv[t].kind \in Updates => StepsInOrder(t))
  /\ [][\A t \in Pollers :
          (/\ inv'[t].kind \in Updates /\ inv'[t].steps # inv[t].steps
           /\ inv'[t].steps \in {<<"fetch">>, <<"fetch", "mutate">>})
            => store' = store]_vars
Wit_C16 ==
  \E t \in Pollers :
    /\ inv[t].kind = "UpdateStatus" /\ Returned(t) /\ inv[t].fetchErr = NotFound
    /\ inv[t].steps = <<"fetch">> /\ inv[t].reused /\ writes = 1

\* C17: a factory call and a step of a Get, List, Object or ObjectList
\* invocation change neither a store nor the store handle; a step of an
\* Update / UpdateStatus invocation leaves the handle alone and changes no
\* resource but the one whose identity the probe was built for; and a store
\* changes only in such a step or by another actor.
FactoryStep == fac' # fac /\ fac'.outcome # "none"
ReadStep(t) ==
  inv'[t] # inv[t] /\ inv'[t].kind \in {"Get", "List", "Object", "ObjectList"}
UpdateStep(t) == inv'[t] # inv[t] /\ inv'[t].kind \in Updates
Thm_C17 ==
  [][/\ (FactoryStep \/ \E t \in Pollers : ReadStep(t))
          => store' = store /\ defaultK' = defaultK
     /\ \A t \in Pollers : UpdateStep(t) =>
          /\ defaultK' = defaultK
          /\ \A s \in Stores, id \in Identities :
               store'[s][id] # store[s][id] => id = probe.nn
     /\ store' # store =>
          \/ ext' # ext
          \/ \E t \in Pollers : UpdateStep(t) /\ inv'[t].wrote]_vars
Wit_C17 ==
  \E t \in Pollers :
    /\ inv[t].kind = "Update" /\ Returned(t) /\ inv[t].wrote
    /\ inv[t].nn = [Namespace |-> "default", Name |-> "test"]
    /\ inv[t].after.spec = 1
    /\ store["s1"][[Namespace |-> "kube", Name |-> "other"]].exists
    /\ store["s1"][[Namespace |-> "kube", Name |-> "other"]].spec = 0

\* C18: an invocation makes a fixed number of store round trips and nothing
\* is tried again: a returning Get, List, Object or ObjectList invocation
\* made exactly one; an Update / UpdateStatus invocation one fetch and, if the
\* fetch succeeded, one write, whether or not the write succeeds; and an
\* invocation in progress can always take its next step.
Thm_C18 ==
  \A t \in Pollers :
    /\ (Returned(t) /\ inv[t].kind \in {"Get", "List", "Object", "ObjectList"})
         => inv[t].trips = 1 /\ Len(inv[t].steps) = 1 /\ inv[t].calls = 0
    /\ (Returned(t) /\ inv[t].kind \in Updates)
         => /\ inv[t].trips = IF inv[t].fetchErr = Nil THEN 2 ELSE 1
            /\ inv[t].calls <= 1
    /\ inv[t].outcome = "none" => inv[t].trips <= 1
    /\ inv[t].pc = "fetched" => ENABLED UpdateMutate(t)
    /\ inv[t].pc = "mutated" => ENABLED UpdateWrite(t)
Wit_C18 ==
  \E t \in Pollers :
    /\ inv[t].kind = "Object" /\ Returned(t) /\ inv[t].err = NotFound
    /\ inv[t].trips = 1 /\ inv[t].ret = 2
====
